---------------------------- MODULE Spec2Model ----------------------------
(***************************************************************************)
(* Model of the pomel-iot firmware: the NVS backed ring-buffer queue       *)
(* (src/src/queue.rs) and the two-channel relay bank (src/src/relay.rs).   *)
(*                                                                         *)
(* Option<T> values are modelled as sequences: None is <<>> and Some(x)    *)
(* is <<x>>.                                                               *)
(***************************************************************************)
EXTENDS Integers, Sequences, FiniteSets, TLC

VARIABLES
    addr,      \* FMemQueue.addr: in-memory cursors, addr[0] = head, addr[1] = tail
    storage,   \* FMemQueue.storage: the NVS namespace "queue" (survives a restart)
    pc,        \* position of the process in the queue code ("idle" between calls)
    ret,       \* the last queue call and what it returned
    fifo,      \* history: payloads stored by enqueue and not yet removed, oldest first
    nextMsg,   \* history: tag of the payload the next storing enqueue carries
    streak,    \* history: enqueue calls made in a row since the queue was empty (-1: none)
    snap,      \* history: what the queue held when the enqueue in progress began
    relays,    \* DoubleRelay: relays[1] = first_relay, relays[2] = second_relay
    now,       \* the clock read by sys_now()
    rret,      \* the last relay-bank call and what it returned
    events,    \* the [Option<Event>; 2] the last pool_event returned
    status,    \* the DoubleRelayStatus the last get_status / interprete returned
    msg,       \* the SendMessage handed to into_bytes / MsgFMQueue::enqueue
    mret,      \* the last SendMessage / MsgFMQueue call and what it returned
    cmd,       \* BotQuery.q, the command text handed to run_command
    cret,      \* what the last run_command made of it and returned
    lpc,       \* where main() is in its loop, or how it ended
    round,     \* the index of the inner `for _ in 0..5`
    retry,     \* the index of critical_section's `for _ in 0..critical_retry`
    iter,      \* the phases gone through in this iteration of 'm, in order
    lret,      \* the last step of main() and what it did
    expect,    \* the oldest message accepted and not yet delivered
    notified   \* history: deadline notifications produced for each relay's current order

vars == <<addr, storage, pc, ret, fifo, nextMsg, streak, snap, relays, now, rret,
          events, status, msg, mret, cmd, cret, lpc, round, retry, iter, lret,
          expect, notified>>

qvars == <<addr, storage, pc, ret, fifo, nextMsg, streak, snap>>
rvars == <<relays, now, rret, events, status>>
mvars == <<msg, mret>>
cvars == <<cmd, cret>>
lvars == <<lpc, round, retry, iter, lret, expect, notified>>
\* what the queue and the relay bank on their own leave alone
xvars == <<mvars, cvars, lvars>>

---------------------------------------------------------------------------
(* Bounds of the model *)

\* payload tags cycle through 1..MsgMod, so neighbours in the ring differ
MsgMod == 3

\* the clock runs from 0 to MaxTime
MaxTime == 2

\* interprete is called with durations of 0..MaxDur seconds
MaxDur == 2

\* message texts are 0..MaxTextLen bytes long
MaxTextLen == 3

\* deadline notifications for one run order are counted up to MaxNotified
MaxNotified == 2

---------------------------------------------------------------------------
(* Option<T> *)

None == <<>>
Some(x) == <<x>>

---------------------------------------------------------------------------
(* queue.rs: constants and the persistent key-value store *)

QUEUE_LIMIT == 20
START_INDEX == 65

\* enum QTarget { Head = 0, Tail = 1 }
QHead == 0
QTail == 1

\* impl Display for QTarget: the NVS key of a cursor
QTargetKey(target) == IF target = QHead THEN "head" ELSE "tail"

\* a fresh NVS namespace: no cursor keys, no blobs
EmptyStorage == [head |-> None, tail |-> None, blob |-> << >>]

\* EspNvs::get_u8(key)
get_u8(st, key) == IF key = "head" THEN st.head ELSE st.tail

\* EspNvs::set_u8(key, value)
set_u8(st, key, value) ==
    IF key = "head" THEN [st EXCEPT !.head = Some(value)]
                    ELSE [st EXCEPT !.tail = Some(value)]

\* EspNvs::get_blob(key): None when the key is absent
get_blob(st, key) == IF key \in DOMAIN st.blob THEN Some(st.blob[key]) ELSE None

\* EspNvs::set_blob(key, value): creates or overwrites the key
set_blob(st, key, value) ==
    [st EXCEPT !.blob = [k \in (DOMAIN st.blob) \cup {key} |->
                            IF k = key THEN value ELSE st.blob[k]]]

\* EspNvs::remove(key): erases the key (no error when it is absent)
remove(st, key) ==
    [st EXCEPT !.blob = [k \in (DOMAIN st.blob) \ {key} |-> st.blob[k]]]

\* Option::unwrap_or
unwrap_or(opt, default) == IF opt = None THEN default ELSE opt[1]

---------------------------------------------------------------------------
(* queue.rs: FMemQueue.  A queue value q is [addr |-> .., storage |-> ..]. *)

\* FMemQueue::increment without the wrap at the top address
increment_nowrap(index) == (index + 1) % 256

\* FMemQueue::increment, with the wrap one address too early
increment_wrap_early(index) ==
    IF index = START_INDEX + QUEUE_LIMIT - 2 THEN START_INDEX ELSE (index + 1) % 256

\* FMemQueue::increment
increment(index) ==
    IF index = START_INDEX + QUEUE_LIMIT - 1 THEN START_INDEX ELSE (index + 1) % 256

\* FMemQueue::is_empty
is_empty(a) == a[QHead] = a[QTail]

\* FMemQueue::is_full that looks two addresses ahead of tail
is_full_early(a) ==
    LET inc_tail == increment(increment(a[QTail]))
        head     == a[QHead]
    IN  inc_tail = head

\* FMemQueue::is_full
is_full(a) ==
    LET inc_tail == increment(a[QTail])
        head     == a[QHead]
    IN  inc_tail = head

\* FMemQueue::new: the cursors are reloaded from the store
new(st) ==
    LET head == unwrap_or(get_u8(st, QTargetKey(QHead)), START_INDEX)
        tail == unwrap_or(get_u8(st, QTargetKey(QTail)), START_INDEX)
    IN  [addr |-> (QHead :> head @@ QTail :> tail), storage |-> st]

\* FMemQueue::increment_address that moves the cursor in memory only
increment_address_unsaved(q, target) ==
    [q EXCEPT !.addr = [q.addr EXCEPT ![target] = increment(q.addr[target])]]

\* FMemQueue::increment_address
increment_address(q, target) ==
    LET key == QTargetKey(target)
        a   == [q.addr EXCEPT ![target] = increment(q.addr[target])]
    IN  [addr |-> a, storage |-> set_u8(q.storage, key, a[target])]

\* the blob write of enqueue, publishing the advanced tail in the same write
enqueue_set_blob_published(q, value) ==
    [q EXCEPT !.storage = set_u8(set_blob(q.storage, q.addr[QTail], value),
                                 QTargetKey(QTail), increment(q.addr[QTail]))]

\* FMemQueue::enqueue, its first write: storage.set_blob(tail, value)
enqueue_set_blob(q, value) ==
    [q EXCEPT !.storage = set_blob(q.storage, q.addr[QTail], value)]

\* FMemQueue::remove_first, its first write: storage.remove(head)
remove_first_erase(q) ==
    [q EXCEPT !.storage = remove(q.storage, q.addr[QHead])]

\* FMemQueue::enqueue that stores without looking at is_full
enqueue_unchecked(q, value) ==
    [q      |-> increment_address(enqueue_set_blob(q, value), QTail),
     ret    |-> FALSE,
     stored |-> TRUE]

\* FMemQueue::enqueue.  stored tells which branch was taken.
enqueue(q, value) ==
    LET full == is_full(q.addr)
    IN  IF full
        THEN [q |-> q, ret |-> ~full, stored |-> FALSE]
        ELSE [q      |-> increment_address(enqueue_set_blob(q, value), QTail),
              ret    |-> FALSE,
              stored |-> TRUE]

\* FMemQueue::peek that reads the newest entry instead of the oldest
peek_newest(q) ==
    IF is_empty(q.addr)
    THEN [ret |-> None, panic |-> FALSE]
    ELSE LET last == IF q.addr[QTail] = START_INDEX
                     THEN START_INDEX + QUEUE_LIMIT - 1 ELSE q.addr[QTail] - 1
             get_val == get_blob(q.storage, last)
         IN  IF get_val = None THEN [ret |-> None, panic |-> TRUE]
                               ELSE [ret |-> get_val, panic |-> FALSE]

\* FMemQueue::peek.  panic: the slot at head is missing (panic!()).
peek(q) ==
    IF is_empty(q.addr)
    THEN [ret |-> None, panic |-> FALSE]
    ELSE LET get_val == get_blob(q.storage, q.addr[QHead])
         IN  IF get_val = None THEN [ret |-> None, panic |-> TRUE]
                               ELSE [ret |-> get_val, panic |-> FALSE]

\* FMemQueue::remove_first
remove_first(q) ==
    IF is_empty(q.addr)
    THEN [q |-> q, ret |-> FALSE]
    ELSE [q   |-> increment_address(remove_first_erase(q), QHead),
          ret |-> TRUE]

\* FMemQueue::dequeue: peek, then remove_first; a true from remove_first
\* takes the panic!() arm
dequeue(q) ==
    LET p == peek(q)
    IN  IF p.panic THEN [q |-> q, ret |-> None, panic |-> TRUE]
        ELSE IF p.ret = None THEN [q |-> q, ret |-> None, panic |-> FALSE]
        ELSE LET r == remove_first(q)
             IN  IF r.ret THEN [q |-> r.q, ret |-> None, panic |-> TRUE]
                          ELSE [q |-> r.q, ret |-> p.ret, panic |-> FALSE]

---------------------------------------------------------------------------
(* relay.rs: Relay and DoubleRelay.  A relay value is                      *)
(* [pin |-> "low" | "high", running |-> Option<RunOrder>]; pin_ok tells    *)
(* whether the write to the output pin succeeds.                           *)

\* RunOrder::new (asserts start_at <= end_at)
RunOrder(start_at, end_at) == [start_at |-> start_at, end_at |-> end_at]

\* enum SetState
Run(ord) == [kind |-> "Run", ord |-> Some(ord)]
Stop == [kind |-> "Stop", ord |-> None]

\* enum RelayAddr { First = 1, Second = 2, Both = 3 }
First == 1
Second == 2
Both == 3

\* Relay::new
Relay_new == [pin |-> "low", running |-> None]

\* PinDriver::set_high / set_low: the level changes when the write succeeds
pin_set(r, level, pin_ok) ==
    [relay |-> IF pin_ok THEN [r EXCEPT !.pin = level] ELSE r,
     err   |-> IF pin_ok THEN "none" ELSE "pin"]

\* Relay::run that takes the new order whether or not one is present
Relay_run_overwrite(r, ord, pin_ok) ==
    pin_set([r EXCEPT !.running = Some(ord)], "high", pin_ok)

\* Relay::run
Relay_run(r, ord, pin_ok) ==
    IF r.running = None
    THEN pin_set([r EXCEPT !.running = Some(ord)], "high", pin_ok)
    ELSE [relay |-> r, err |-> "already_on"]

\* Relay::stop
Relay_stop(r, pin_ok) == pin_set(r, "low", pin_ok)

\* Relay::set
Relay_set(r, state, pin_ok) ==
    IF state.kind = "Run" THEN Relay_run(r, state.ord[1], pin_ok)
                          ELSE Relay_stop(r, pin_ok)

\* DoubleRelay::set: the first relay when bit 0 of the address is set, then
\* the second when bit 1 is set; an error returns at once (the ? operator)
DoubleRelay_set(rs, target, state, ok1, ok2) ==
    LET muxed == target
        s1 == IF (muxed % 2) = 1
              THEN Relay_set(rs[1], state, ok1)
              ELSE [relay |-> rs[1], err |-> "none"]
        s2 == IF s1.err = "none" /\ (muxed \div 2) = 1
              THEN Relay_set(rs[2], state, ok2)
              ELSE [relay |-> rs[2], err |-> "none"]
    IN  [relays |-> [i \in 1..2 |-> IF i = 1 THEN s1.relay ELSE s2.relay],
         err    |-> IF s1.err # "none" THEN s1.err ELSE s2.err]

\* whether relay i (1 or 2) is selected by the address
Addressed(target, i) == IF i = 1 THEN (target % 2) = 1 ELSE (target \div 2) = 1

\* Relay.name of first_relay and second_relay (DoubleRelay::new)
RelayName(i) == IF i = 1 THEN "pompa_air" ELSE "lain_lain"

\* DoubleRelay::resolve_addr
resolve_addr(name) ==
    IF name = "both" THEN Some(Both)
    ELSE IF name = RelayName(1) THEN Some(First)
    ELSE IF name = RelayName(2) THEN Some(Second)
    ELSE None

\* Relay::is_run_deadline with a strict comparison
is_run_deadline_strict(r, t) ==
    IF r.running # None THEN r.running[1].end_at < t ELSE FALSE

\* Relay::is_run_deadline
is_run_deadline(r, t) ==
    IF r.running # None THEN r.running[1].end_at <= t ELSE FALSE

\* struct Event
Event(name, run_deadline) == [name |-> name, run_deadline |-> run_deadline]

\* DoubleRelay::pool_event, t being what sys_now() returns
pool_event(rs, t) ==
    LET e1 == is_run_deadline(rs[1], t)
        e2 == is_run_deadline(rs[2], t)
    IN  << IF e1 THEN Some(Event(RelayName(1), e1)) ELSE None,
           IF e2 THEN Some(Event(RelayName(2), e2)) ELSE None >>

\* Relay::get_status
Relay_get_status(rs, i) == [name |-> RelayName(i), run_info |-> rs[i].running]

\* DoubleRelay::get_status: Single as one entry, Both as two
get_status(rs, target) ==
    IF target = First THEN << Relay_get_status(rs, 1) >>
    ELSE IF target = Second THEN << Relay_get_status(rs, 2) >>
    ELSE << Relay_get_status(rs, 1), Relay_get_status(rs, 2) >>

\* struct RelayQuery
RelayQuery(name, instruction, duration) ==
    [name |-> name, instruction |-> instruction, duration |-> duration]

\* the run time interprete gives an on command without a duration
DEFAULT_DURATION == 3600

\* DoubleRelay::interprete, t being what sys_now() returns
interprete(rs, query, t, ok1, ok2) ==
    LET r_addr == IF query.name = None THEN None ELSE resolve_addr(query.name[1])
    IN  IF r_addr = None
        THEN [relays |-> rs, err |-> "name_notfound", target |-> 0,
              state |-> Stop, status |-> << >>]
        ELSE IF query.instruction = None
        THEN [relays |-> rs, err |-> "inv_instruction", target |-> r_addr[1],
              state |-> Stop, status |-> << >>]
        ELSE LET end == IF query.duration = None THEN t + DEFAULT_DURATION
                                                 ELSE t + query.duration[1]
                 instruction == IF query.instruction[1] THEN Run(RunOrder(t, end))
                                                        ELSE Stop
                 r == DoubleRelay_set(rs, r_addr[1], instruction, ok1, ok2)
             IN  [relays |-> r.relays, err |-> r.err, target |-> r_addr[1],
                  state |-> instruction,
                  status |-> IF r.err = "none" THEN get_status(r.relays, r_addr[1])
                                               ELSE << >>]

---------------------------------------------------------------------------
(* Observations of the queue used by the properties *)

Q == [addr |-> addr, storage |-> storage]

\* struct SendMessage; the text as its UTF-8 bytes
SendMessage(chat_id, text) == [chat_id |-> chat_id, text |-> text]

\* u32::to_be_bytes
to_be_bytes(n) ==
    << (n \div 16777216) % 256, (n \div 65536) % 256, (n \div 256) % 256, n % 256 >>

\* u32::from_be_bytes
from_be_bytes(b) == ((b[1] * 256 + b[2]) * 256 + b[3]) * 256 + b[4]

\* SendMessage::into_bytes
into_bytes(m) == to_be_bytes(m.chat_id) \o m.text

\* SendMessage::from_bytes: assert!(buf.len() > 5), then split header and text
from_bytes(buf) ==
    IF Len(buf) > 5
    THEN [panic |-> FALSE,
          msg |-> Some(SendMessage(from_be_bytes(SubSeq(buf, 1, 4)),
                                   SubSeq(buf, 5, Len(buf))))]
    ELSE [panic |-> TRUE, msg |-> None]

\* MsgFMQueue::enqueue
Msg_enqueue(q, m) == enqueue(q, into_bytes(m))

\* MsgFMQueue::peek
Msg_peek(q) ==
    LET r == peek(q)
    IN  IF r.panic THEN [panic |-> TRUE, msg |-> None]
        ELSE IF r.ret = None THEN [panic |-> FALSE, msg |-> None]
        ELSE from_bytes(r.ret[1])

MRet(op, m, panic) == [op |-> op, msg |-> m, panic |-> panic]

\* ---------------------------------------------------------------------
\* Commands (main.rs); a &str is the sequence of its characters

\* the string literals of run_command and the relay names, as characters
Word(w) ==
    CASE w = "relay"     -> <<"r", "e", "l", "a", "y">>
      [] w = "on"        -> <<"o", "n">>
      [] w = "off"       -> <<"o", "f", "f">>
      [] w = "for"       -> <<"f", "o", "r">>
      [] w = "both"      -> <<"b", "o", "t", "h">>
      [] w = "pompa_air" -> <<"p", "o", "m", "p", "a", "_", "a", "i", "r">>
      [] w = "lain_lain" -> <<"l", "a", "i", "n", "_", "l", "a", "i", "n">>
      [] OTHER           -> <<"f", "o", "o">>

\* the name a token spells, for resolve_addr to compare ("foo": none it knows)
as_str(token) ==
    IF \E w \in {"both", "pompa_air", "lain_lain"} : Word(w) = token
    THEN CHOOSE w \in {"both", "pompa_air", "lain_lain"} : Word(w) = token
    ELSE "foo"

\* str::split(' ')
RECURSIVE split(_)
split(s) ==
    IF \A k \in 1..Len(s) : s[k] # " "
    THEN << s >>
    ELSE LET k == CHOOSE k \in 1..Len(s) : s[k] = " " /\ \A j \in 1..(k - 1) : s[j] # " "
         IN  << SubSeq(s, 1, k - 1) >> \o split(SubSeq(s, k + 1, Len(s)))

\* a u32 as two 16-bit halves; hi beyond 16 bits is a value beyond u32
U32(hi, lo) == [hi |-> hi, lo |-> lo]

\* v * m + a, exactly
u32_mul_add(v, m, a) ==
    LET lo == v.lo * m + a
    IN  U32(v.hi * m + (lo \div 65536), lo % 65536)

\* the value does not fit 32 bits
overflowed(v) == v.hi >= 65536

\* the low 32 bits
wrapping(v) == U32(v.hi % 65536, v.lo)

\* `as u64` of a value below 2^31
u32_as_u64(v) == v.hi * 65536 + v.lo

DigitValue ==
    "0" :> 0 @@ "1" :> 1 @@ "2" :> 2 @@ "3" :> 3 @@ "4" :> 4 @@
    "5" :> 5 @@ "6" :> 6 @@ "7" :> 7 @@ "8" :> 8 @@ "9" :> 9

\* the digits loop of str::parse::<u32>: None for a non-digit or an overflow
RECURSIVE parse_digits(_, _)
parse_digits(s, acc) ==
    IF s = << >> THEN Some(acc)
    ELSE IF Head(s) \notin DOMAIN DigitValue THEN None
    ELSE LET v == u32_mul_add(acc, 10, DigitValue[Head(s)])
         IN  IF overflowed(v) THEN None ELSE parse_digits(Tail(s), v)

\* str::parse::<u32>: an optional "+", then at least one digit
parse_u32(s) ==
    IF s = << >> THEN None
    ELSE IF s = << "+" >> THEN None
    ELSE IF Head(s) = "+" THEN parse_digits(Tail(s), U32(0, 0))
    ELSE parse_digits(s, U32(0, 0))

\* what run_command returns: the error (or "none"), the RelayQuery it built
\* if it got to interprete, and whether it panicked
CRet(op, err, query, panic) == [op |-> op, err |-> err, query |-> query, panic |-> panic]

\* the `for <duration>` arm of run_command: duration * mul overflows u32 as
\* the build has it, panicking with overflow checks and wrapping without
for_duration(dur_str, overflow_checks) ==
    IF Len(dur_str) < 2 THEN [err |-> "invalid_unit", duration |-> None, panic |-> FALSE]
    ELSE LET dur  == SubSeq(dur_str, 1, Len(dur_str) - 1)
             unit == dur_str[Len(dur_str)]
         IN  IF unit \notin {"m", "h"}
             THEN [err |-> "invalid_unit", duration |-> None, panic |-> FALSE]
             ELSE LET mul == IF unit = "m" THEN 60 ELSE 3600
                      duration == parse_u32(dur)
                  IN  IF duration = None
                      THEN [err |-> "invalid_unit", duration |-> None, panic |-> FALSE]
                      ELSE LET product == u32_mul_add(duration[1], mul, 0)
                           IN  IF overflowed(product) /\ overflow_checks
                               THEN [err |-> "none", duration |-> None, panic |-> TRUE]
                               ELSE [err |-> "none", panic |-> FALSE,
                                     duration |-> Some(wrapping(product))]

\* run_command, t being what sys_now() returns
run_command(rs, q, t, ok1, ok2, overflow_checks) ==
    LET tokens == split(q)
        top_cmd == tokens[1]
        fail(e) == [relays |-> rs, ret |-> CRet("run_command", e, None, FALSE),
                    status |-> << >>]
        call(name, instruction, duration) ==
            LET r == interprete(rs,
                                RelayQuery(Some(as_str(name)), Some(instruction),
                                           IF duration = None THEN None
                                           ELSE Some(u32_as_u64(duration[1]))),
                                t, ok1, ok2)
            IN  [relays |-> r.relays, status |-> r.status,
                 ret |-> CRet("run_command", r.err,
                              Some(RelayQuery(Some(name), Some(instruction), duration)),
                              FALSE)]
    IN  IF top_cmd = Word("relay")
        THEN IF Len(tokens) < 3 THEN fail("invalid_cmd")
             ELSE IF tokens[3] \notin {Word("on"), Word("off")} THEN fail("invalid_cmd")
             ELSE IF Len(tokens) < 4 THEN call(tokens[2], tokens[3] = Word("on"), None)
             ELSE IF tokens[4] # Word("for") THEN fail("no_matching_pattern")
             ELSE IF Len(tokens) < 5 THEN fail("expected_duration")
             ELSE LET d == for_duration(tokens[5], overflow_checks)
                  IN  IF d.panic
                      THEN [relays |-> rs, status |-> << >>,
                            ret |-> CRet("run_command", "none", None, TRUE)]
                      ELSE IF d.err # "none" THEN fail(d.err)
                      ELSE call(tokens[2], tokens[3] = Word("on"), d.duration)
        ELSE fail("unregister_command")

\* number of ring positions from head up to tail
RingLen(a) == (a[QTail] - a[QHead] + QUEUE_LIMIT) % QUEUE_LIMIT

\* address of the i-th ring position counted from base address h (i = 0: h itself)
RingAt(h, i) == START_INDEX + ((h - START_INDEX + i) % QUEUE_LIMIT)

\* the slots from head up to (not including) tail, oldest first, each an Option
Held(q) == [i \in 1..RingLen(q.addr) |-> get_blob(q.storage, RingAt(q.addr[QHead], i - 1))]

\* number of entries the store holds
Count == Cardinality(DOMAIN storage.blob)

\* a sequence of payloads as a sequence of present slots
AllSome(s) == [i \in 1..Len(s) |-> Some(s[i])]

NextTag(m) == (m % MsgMod) + 1

Ret(op, ok, val, panic) == [op |-> op, ok |-> ok, val |-> val, panic |-> panic]

RRet(op, target, state, err) == [op |-> op, target |-> target, state |-> state, err |-> err]

---------------------------------------------------------------------------
(* Initial state: first boot on an erased store, both relays idle *)

\* ---------------------------------------------------------------------
\* The control loop (main.rs). A notification or reply stands in the queue
\* as its sequence tag.

\* `for _ in 0..5`
ROUNDS == 5

\* `let critical_retry = 12`
critical_retry == 12

MAX_SEND_EFFORT == 8

\* what a step of main() did: whether it succeeded, the messages the
\* Notifier confirmed, the sends attempted, the messages handed to enqueue
LRet(op, ok, sent, attempts, offered) ==
    [op |-> op, ok |-> ok, sent |-> sent, attempts |-> attempts, offered |-> offered]

\* message_queue.enqueue(msg), the returned bool dropped
offer(st) ==
    LET e == enqueue(st.q, st.tag)
    IN  [st EXCEPT !.q = e.q,
                   !.tag = IF e.stored THEN NextTag(st.tag) ELSE st.tag,
                   !.accepted = IF e.stored THEN Append(st.accepted, st.tag)
                                            ELSE st.accepted,
                   !.offered = st.offered + 1]

\* relay_service, t being what sys_now() returns in pool_event
relay_service(rs, q, tag, t, ok1, ok2) ==
    LET evs == pool_event(rs, t)
        event(st, i) ==
            IF st.err # "none" \/ evs[i] = None THEN st
            ELSE LET a == resolve_addr(evs[i][1].name)[1]
                     r == DoubleRelay_set(st.relays, a, Stop, ok1, ok2)
                 IN  IF r.err # "none"
                     THEN [st EXCEPT !.relays = r.relays, !.err = r.err]
                     ELSE offer([st EXCEPT !.relays = r.relays,
                                           !.stopped = st.stopped \cup {i}])
        first == event([relays |-> rs, q |-> q, tag |-> tag, err |-> "none",
                        accepted |-> << >>, offered |-> 0, stopped |-> {}], 1)
    IN  \* the second event, from the state the first one left
        CHOOSE st \in {event(s, 2) : s \in {first}} : TRUE

\* the loop of send_message_queue with no bound on the sends
RECURSIVE send_loop_unbounded(_, _, _, _)
send_loop_unbounded(q, tries, good, sent) ==
    LET m == peek(q)
    IN  IF m.panic
        THEN [q |-> q, ok |-> FALSE, sent |-> sent, attempts |-> Len(sent), panic |-> TRUE]
        ELSE IF m.ret = None
        THEN [q |-> q, ok |-> TRUE, sent |-> sent, attempts |-> Len(sent), panic |-> FALSE]
        ELSE IF good = 0
        THEN [q |-> q, ok |-> FALSE, sent |-> sent, attempts |-> Len(sent) + 1,
              panic |-> FALSE]
        ELSE send_loop_unbounded(remove_first(q).q, tries, good - 1, Append(sent, m.ret[1]))

\* the loop of send_message_queue dropping a message whose send failed
RECURSIVE send_loop_dropping(_, _, _, _)
send_loop_dropping(q, tries, good, sent) ==
    IF tries = 0
    THEN [q |-> q, ok |-> TRUE, sent |-> sent, attempts |-> Len(sent), panic |-> FALSE]
    ELSE LET m == peek(q)
         IN  IF m.panic
             THEN [q |-> q, ok |-> FALSE, sent |-> sent, attempts |-> Len(sent),
                   panic |-> TRUE]
             ELSE IF m.ret = None
             THEN [q |-> q, ok |-> TRUE, sent |-> sent, attempts |-> Len(sent),
                   panic |-> FALSE]
             ELSE IF good = 0
             THEN send_loop_dropping(remove_first(q).q, tries - 1, tries, sent)
             ELSE send_loop_dropping(remove_first(q).q, tries - 1, good - 1,
                                     Append(sent, m.ret[1]))

\* the loop of send_message_queue: `tries` rounds left, of which the next
\* `good` sends are confirmed by the Notifier and the one after fails
RECURSIVE send_loop(_, _, _, _)
send_loop(q, tries, good, sent) ==
    IF tries = 0
    THEN [q |-> q, ok |-> TRUE, sent |-> sent, attempts |-> Len(sent), panic |-> FALSE]
    ELSE LET m == peek(q)
         IN  IF m.panic
             THEN [q |-> q, ok |-> FALSE, sent |-> sent, attempts |-> Len(sent),
                   panic |-> TRUE]
             ELSE IF m.ret = None
             THEN [q |-> q, ok |-> TRUE, sent |-> sent, attempts |-> Len(sent),
                   panic |-> FALSE]
             ELSE IF good = 0
             THEN [q |-> q, ok |-> FALSE, sent |-> sent, attempts |-> Len(sent) + 1,
                   panic |-> FALSE]
             ELSE send_loop(remove_first(q).q, tries - 1, good - 1,
                            Append(sent, m.ret[1]))

\* send_message_queue; conn_ok is whether create_http_connection succeeds
send_message_queue(q, max_try, conn_ok, good) ==
    IF is_empty(q.addr)
    THEN [q |-> q, ok |-> TRUE, sent |-> << >>, attempts |-> 0, panic |-> FALSE]
    ELSE IF ~conn_ok
    THEN [q |-> q, ok |-> FALSE, sent |-> << >>, attempts |-> 0, panic |-> FALSE]
    ELSE send_loop(q, max_try, good, << >>)

\* where main() goes after the drain of round i
after_drain_once(i) == "wifi"

after_drain(i) == IF i + 1 < ROUNDS THEN "service" ELSE "wifi"

\* the notification counts after a relay_service that stopped (and produced
\* a notification for) the relays in `stopped`
Notify(count, stopped) ==
    [i \in 1..2 |-> IF i \in stopped /\ count[i] < MaxNotified THEN count[i] + 1
                                                              ELSE count[i]]

InitQueue ==
    /\ storage = EmptyStorage
    /\ addr = new(EmptyStorage).addr
    /\ pc = "idle"
    /\ ret = Ret("new", FALSE, None, FALSE)
    /\ fifo = << >>
    /\ nextMsg = 1
    /\ streak = 0
    /\ snap = << >>

InitBank ==
    /\ relays = [i \in 1..2 |-> Relay_new]
    /\ now = 0
    /\ rret = RRet("new", 0, Stop, "none")
    /\ events = <<None, None>>
    /\ status = << >>

InitCodec ==
    /\ msg = SendMessage(0, << >>)
    /\ mret = MRet("new", None, FALSE)

InitCommand ==
    /\ cmd = << >>
    /\ cret = CRet("new", "none", None, FALSE)

InitLoop ==
    /\ lpc = "service"
    /\ round = 0
    /\ retry = 0
    /\ iter = << >>
    /\ lret = LRet("boot", TRUE, << >>, 0, 0)
    /\ expect = 1
    /\ notified = <<0, 0>>

Init == InitQueue /\ InitBank /\ InitCodec /\ InitCommand /\ InitLoop

StreakAfter(a) == IF is_empty(a) THEN 0 ELSE -1

\* enqueue(value) returns
Enqueue ==
    /\ pc = "idle"
    /\ LET r == enqueue(Q, nextMsg)
       IN  /\ addr' = r.q.addr
           /\ storage' = r.q.storage
           /\ ret' = Ret("enqueue", r.ret, None, FALSE)
           /\ fifo' = IF r.stored THEN Append(fifo, nextMsg) ELSE fifo
           /\ nextMsg' = IF r.stored THEN NextTag(nextMsg) ELSE nextMsg
    /\ streak' = IF streak >= 0 /\ streak < QUEUE_LIMIT THEN streak + 1 ELSE -1
    /\ UNCHANGED <<pc, snap>>
    /\ UNCHANGED rvars
    /\ UNCHANGED xvars

\* peek(buf) returns, or panics on a missing slot
Peek ==
    /\ pc = "idle"
    /\ LET r == peek(Q)
       IN  /\ ret' = Ret("peek", FALSE, r.ret, r.panic)
           /\ pc' = IF r.panic THEN "dead" ELSE "idle"
    /\ streak' = StreakAfter(addr)
    /\ UNCHANGED <<addr, storage, fifo, nextMsg, snap>>
    /\ UNCHANGED rvars
    /\ UNCHANGED xvars

\* remove_first() returns
RemoveFirst ==
    /\ pc = "idle"
    /\ LET r == remove_first(Q)
       IN  /\ addr' = r.q.addr
           /\ storage' = r.q.storage
           /\ ret' = Ret("remove_first", r.ret, None, FALSE)
           /\ fifo' = IF r.ret THEN Tail(fifo) ELSE fifo
           /\ streak' = StreakAfter(r.q.addr)
    /\ UNCHANGED <<pc, nextMsg, snap>>
    /\ UNCHANGED rvars
    /\ UNCHANGED xvars

\* dequeue(buf) returns, or panics
Dequeue ==
    /\ pc = "idle"
    /\ LET r == dequeue(Q)
       IN  /\ addr' = r.q.addr
           /\ storage' = r.q.storage
           /\ ret' = Ret("dequeue", FALSE, r.ret, r.panic)
           /\ pc' = IF r.panic THEN "dead" ELSE "idle"
           /\ fifo' = IF r.q.addr # addr THEN Tail(fifo) ELSE fifo
           /\ streak' = StreakAfter(r.q.addr)
    /\ UNCHANGED <<nextMsg, snap>>
    /\ UNCHANGED rvars
    /\ UNCHANGED xvars

\* the device restarts between two calls (or after a panic) and main
\* builds the queue again with FMemQueue::new
New ==
    /\ pc \in {"idle", "dead"}
    /\ addr' = new(storage).addr
    /\ pc' = "idle"
    /\ ret' = Ret("new", FALSE, None, FALSE)
    /\ streak' = StreakAfter(addr')
    /\ UNCHANGED <<storage, fifo, nextMsg, snap>>
    /\ UNCHANGED rvars
    /\ UNCHANGED xvars

Next == Enqueue \/ Peek \/ RemoveFirst \/ Dequeue \/ New

Spec == Init /\ [][Next]_vars


---------------------------------------------------------------------------
(* Queue calls with power loss: enqueue and remove_first each make two     *)
(* writes to the store, and the device may lose power between them.  The   *)
(* in-memory half of increment_address is lost with the power, so a loss   *)
(* between its assignment and its set_u8 equals a loss just before it.     *)

\* enqueue up to and including storage.set_blob (a full queue returns at once)
EnqueueWrite ==
    /\ pc = "idle"
    /\ IF is_full(addr)
       THEN /\ ret' = Ret("enqueue", ~is_full(addr), None, FALSE)
            /\ UNCHANGED <<addr, storage, pc, snap>>
       ELSE /\ storage' = enqueue_set_blob(Q, nextMsg).storage
            /\ pc' = "enq_tail"
            /\ snap' = Held(Q)
            /\ UNCHANGED <<addr, ret>>
    /\ streak' = -1
    /\ UNCHANGED <<fifo, nextMsg>>
    /\ UNCHANGED rvars
    /\ UNCHANGED xvars

\* enqueue from increment_address(QTarget::Tail) to its return
EnqueueAdvance ==
    /\ pc = "enq_tail"
    /\ LET q == increment_address(Q, QTail)
       IN  /\ addr' = q.addr
           /\ storage' = q.storage
    /\ ret' = Ret("enqueue", FALSE, None, FALSE)
    /\ pc' = "idle"
    /\ fifo' = Append(fifo, nextMsg)
    /\ nextMsg' = NextTag(nextMsg)
    /\ UNCHANGED <<streak, snap>>
    /\ UNCHANGED rvars
    /\ UNCHANGED xvars

\* remove_first up to and including storage.remove (an empty queue returns at once)
RemoveErase ==
    /\ pc = "idle"
    /\ IF is_empty(addr)
       THEN /\ ret' = Ret("remove_first", FALSE, None, FALSE)
            /\ UNCHANGED <<storage, pc>>
       ELSE /\ storage' = remove_first_erase(Q).storage
            /\ pc' = "rm_head"
            /\ UNCHANGED ret
    /\ streak' = -1
    /\ UNCHANGED <<addr, fifo, nextMsg, snap>>
    /\ UNCHANGED rvars
    /\ UNCHANGED xvars

\* remove_first from increment_address(QTarget::Head) to its return
RemoveAdvance ==
    /\ pc = "rm_head"
    /\ LET q == increment_address(Q, QHead)
       IN  /\ addr' = q.addr
           /\ storage' = q.storage
    /\ ret' = Ret("remove_first", TRUE, None, FALSE)
    /\ pc' = "idle"
    /\ fifo' = Tail(fifo)
    /\ UNCHANGED <<nextMsg, streak, snap>>
    /\ UNCHANGED rvars
    /\ UNCHANGED xvars

\* power is lost inside enqueue or remove_first; the device restarts and
\* FMemQueue::new reloads the cursors.  fifo keeps the payloads the
\* persisted cursors still span.
Crash ==
    /\ pc \in {"enq_tail", "rm_head"}
    /\ addr' = new(storage).addr
    /\ pc' = "idle"
    /\ ret' = Ret("new", FALSE, None, FALSE)
    /\ streak' = -1
    /\ UNCHANGED <<storage, fifo, nextMsg, snap>>
    /\ UNCHANGED rvars
    /\ UNCHANGED xvars

NextCrash == EnqueueWrite \/ EnqueueAdvance \/ RemoveErase \/ RemoveAdvance
                \/ Crash \/ Peek \/ New

SpecCrash == Init /\ [][NextCrash]_vars

---------------------------------------------------------------------------
(* Calls on the relay bank *)

\* the run orders a caller can build while the clock is within 0..MaxTime
Orders ==
    {o \in [start_at : 0..MaxTime, end_at : 0..MaxTime] : o.start_at <= o.end_at}

\* DoubleRelay::set(target, state) returns
Set(target, state) ==
    \E ok1 \in BOOLEAN, ok2 \in BOOLEAN :
        LET r == DoubleRelay_set(relays, target, state, ok1, ok2)
        IN  /\ relays' = r.relays
            /\ rret' = RRet("set", target, state, r.err)
            /\ events' = <<None, None>>
            /\ status' = << >>
            /\ UNCHANGED now
            /\ UNCHANGED qvars
            /\ UNCHANGED xvars

SetRun == \E target \in {First, Second, Both}, ord \in Orders : Set(target, Run(ord))

SetStop == \E target \in {First, Second, Both} : Set(target, Stop)

\* a second passes on the clock
Tick ==
    /\ now < MaxTime
    /\ now' = now + 1
    /\ rret' = RRet("tick", 0, Stop, "none")
    /\ events' = <<None, None>>
    /\ status' = << >>
    /\ UNCHANGED relays
    /\ UNCHANGED qvars
    /\ UNCHANGED xvars

\* DoubleRelay::pool_event() returns
PoolEvent ==
    /\ events' = pool_event(relays, now)
    /\ rret' = RRet("pool_event", 0, Stop, "none")
    /\ status' = << >>
    /\ UNCHANGED <<relays, now>>
    /\ UNCHANGED qvars
    /\ UNCHANGED xvars

\* DoubleRelay::get_status(target) returns
GetStatus ==
    \E target \in {First, Second, Both} :
        /\ status' = get_status(relays, target)
        /\ rret' = RRet("get_status", target, Stop, "none")
        /\ events' = <<None, None>>
        /\ UNCHANGED <<relays, now>>
        /\ UNCHANGED qvars
        /\ UNCHANGED xvars

\* the queries interprete is called with
\* (a duration only where interprete reads it: with a name that resolves
\* and the instruction on)
Queries ==
    LET names == {Some("both"), Some(RelayName(1)), Some(RelayName(2))}
    IN  {RelayQuery(n, Some(FALSE), None) : n \in {None, Some("foo")}}
        \cup {RelayQuery(n, i, None) : n \in names, i \in {None, Some(FALSE)}}
        \cup {RelayQuery(n, Some(TRUE), d) :
                 n \in names, d \in {None} \cup {Some(x) : x \in 0..MaxDur}}

\* DoubleRelay::interprete(query) returns
Interprete ==
    \E query \in Queries, ok1 \in BOOLEAN, ok2 \in BOOLEAN :
        \E r \in {interprete(relays, query, now, ok1, ok2)} :
            /\ relays' = r.relays
            /\ rret' = RRet("interprete", r.target, r.state, r.err)
            /\ status' = r.status
            /\ events' = <<None, None>>
            /\ UNCHANGED now
            /\ UNCHANGED qvars
            /\ UNCHANGED xvars

NextRelay == SetRun \/ SetStop \/ Tick \/ PoolEvent \/ GetStatus

SpecRelay == Init /\ [][NextRelay]_vars

\* the relay bank driven by queries, as run_command drives it
NextBank == Interprete \/ Tick \/ PoolEvent \/ GetStatus

SpecBank == Init /\ [][NextBank]_vars

\* ---------------------------------------------------------------------
\* Messages through the codec and the message queue

\* chat ids across the four header bytes
ChatIds == {0, 1, 255, 256, 65536, 16777216, 2147483647}

\* the bytes texts are made of: "a", "b"
TextBytes == {97, 98}

Texts == UNION {[1..n -> TextBytes] : n \in 0..MaxTextLen}

Messages == {SendMessage(c, t) : c \in ChatIds, t \in Texts}

\* a freshly constructed queue and any message to put through it
InitMsg ==
    /\ InitQueue
    /\ InitBank
    /\ msg \in Messages
    /\ mret = MRet("new", None, FALSE)
    /\ InitCommand
    /\ InitLoop

\* from_bytes(into_bytes(msg))
RoundTrip ==
    /\ pc = "idle"
    /\ LET r == from_bytes(into_bytes(msg))
       IN  /\ mret' = MRet("round_trip", r.msg, r.panic)
           /\ pc' = IF r.panic THEN "dead" ELSE "idle"
    /\ UNCHANGED <<addr, storage, ret, fifo, nextMsg, streak, snap, msg>>
    /\ UNCHANGED rvars
    /\ UNCHANGED cvars
    /\ UNCHANGED lvars

\* MsgFMQueue::enqueue(msg) returns
MsgEnqueue ==
    /\ pc = "idle"
    /\ LET r == Msg_enqueue(Q, msg)
       IN  /\ addr' = r.q.addr
           /\ storage' = r.q.storage
           /\ ret' = Ret("enqueue", r.ret, None, FALSE)
           /\ fifo' = IF r.stored THEN Append(fifo, msg) ELSE fifo
    /\ mret' = MRet("enqueue", None, FALSE)
    /\ UNCHANGED <<pc, nextMsg, streak, snap, msg>>
    /\ UNCHANGED rvars
    /\ UNCHANGED cvars
    /\ UNCHANGED lvars

\* MsgFMQueue::peek(&mut buffer) returns, or panics
MsgPeek ==
    /\ pc = "idle"
    /\ LET r == Msg_peek(Q)
       IN  /\ mret' = MRet("peek", r.msg, r.panic)
           /\ pc' = IF r.panic THEN "dead" ELSE "idle"
    /\ UNCHANGED <<addr, storage, ret, fifo, nextMsg, streak, snap, msg>>
    /\ UNCHANGED rvars
    /\ UNCHANGED cvars
    /\ UNCHANGED lvars

\* MsgFMQueue::remove_first() returns
MsgRemoveFirst ==
    /\ pc = "idle"
    /\ LET r == remove_first(Q)
       IN  /\ addr' = r.q.addr
           /\ storage' = r.q.storage
           /\ ret' = Ret("remove_first", r.ret, None, FALSE)
           /\ fifo' = IF r.ret THEN Tail(fifo) ELSE fifo
    /\ mret' = MRet("remove_first", None, FALSE)
    /\ UNCHANGED <<pc, nextMsg, streak, snap, msg>>
    /\ UNCHANGED rvars
    /\ UNCHANGED cvars
    /\ UNCHANGED lvars

NextMsg == RoundTrip \/ MsgEnqueue \/ MsgPeek \/ MsgRemoveFirst

SpecMsg == InitMsg /\ [][NextMsg]_vars

\* ---------------------------------------------------------------------
\* Commands through run_command

\* tokens joined by single spaces
RECURSIVE join(_)
join(ts) ==
    IF Len(ts) = 1 THEN ts[1] ELSE ts[1] \o << " " >> \o join(Tail(ts))

\* duration tokens: in minutes and hours, with a sign, too short, with a
\* wrong unit, with a non-digit, beyond u32 before and after the product
DurationTokens ==
    { <<"1", "m">>, <<"2", "h">>, <<"0", "m">>, <<"+", "1", "h">>,
      << >>, <<"5">>, <<"m">>, <<"5", "x">>, <<"x", "m">>, <<"+", "m">>,
      <<"4", "2", "9", "4", "9", "6", "7", "2", "9", "6", "m">>,
      <<"7", "1", "5", "8", "2", "7", "8", "9", "m">>,
      <<"1", "1", "9", "3", "0", "4", "7", "h">> }

TokenSeqs ==
    LET relay == Word("relay")
        names == {Word("pompa_air"), Word("lain_lain"), Word("both"), Word("foo")}
        instr == {Word("on"), Word("off"), Word("foo")}
        preds == {Word("for"), Word("foo")}
    IN  {<< t >> : t \in {relay, Word("foo"), << >>}}
        \cup {<< Word("foo"), n >> : n \in names}
        \cup {<< relay, n >> : n \in names}
        \cup {<< relay, n, i >> : n \in names, i \in instr}
        \cup {<< relay, n, i, x >> : n \in names, i \in instr, x \in preds}
        \cup {<< relay, n, i, Word("for"), d >> :
                 n \in names, i \in instr, d \in DurationTokens}
        \cup {<< relay, n, Word("on"), Word("for"), <<"1", "m">>, Word("foo") >> :
                 n \in names}

\* the command texts run_command is given
Commands == {join(ts) : ts \in TokenSeqs}

\* a fresh relay bank and any command text
InitCmd ==
    /\ InitQueue
    /\ InitBank
    /\ InitCodec
    /\ cmd \in Commands
    /\ cret = CRet("new", "none", None, FALSE)
    /\ InitLoop

\* run_command(q, relay) returns, or panics
RunCommand ==
    /\ pc = "idle"
    /\ \E ok1 \in BOOLEAN, ok2 \in BOOLEAN, overflow_checks \in BOOLEAN :
        LET r == run_command(relays, cmd, now, ok1, ok2, overflow_checks)
        IN  /\ relays' = r.relays
            /\ cret' = r.ret
            /\ status' = r.status
            /\ rret' = RRet("run_command", 0, Stop, r.ret.err)
            /\ pc' = IF r.ret.panic THEN "dead" ELSE "idle"
    /\ events' = <<None, None>>
    /\ UNCHANGED <<now, cmd>>
    /\ UNCHANGED <<addr, storage, ret, fifo, nextMsg, streak, snap>>
    /\ UNCHANGED mvars
    /\ UNCHANGED lvars

NextCmd == RunCommand \/ Tick

SpecCmd == InitCmd /\ [][NextCmd]_vars

\* ---------------------------------------------------------------------
\* main(): the control loop, step by step

\* the queue after a step that handed messages to it
Queued(q, accepted, tag) ==
    /\ addr' = q.addr
    /\ storage' = q.storage
    /\ fifo' = fifo \o accepted
    /\ nextMsg' = tag
    /\ UNCHANGED <<pc, ret, streak, snap>>

\* relay_service(&mut relay, &mut message_queue) in main()
RelayService ==
    /\ lpc = "service"
    /\ \E ok1 \in BOOLEAN, ok2 \in BOOLEAN :
        \E r \in {relay_service(relays, Q, nextMsg, now, ok1, ok2)} :
            /\ relays' = r.relays
            /\ Queued(r.q, r.accepted, r.tag)
            /\ lpc' = IF r.err = "none" THEN "drain" ELSE "report"
            /\ lret' = LRet("relay_service", r.err = "none", << >>, 0, r.offered)
            /\ notified' = Notify(notified, r.stopped)
    /\ iter' = IF round = 0 THEN << "deadline" >> ELSE Append(iter, "deadline")
    /\ UNCHANGED <<round, retry, expect>>
    /\ UNCHANGED <<now, rret, events, status>>
    /\ UNCHANGED <<mvars, cvars>>

\* the error branch of main(): create_http_connection()?, then
\* tele_pool.send_message(msg).unwrap(), then into critical_section
Report ==
    /\ lpc = "report"
    /\ \E conn_ok \in BOOLEAN, send_ok \in BOOLEAN :
        /\ lpc' = IF ~conn_ok THEN "exited"
                  ELSE IF ~send_ok THEN "panicked"
                  ELSE "critical"
        /\ lret' = LRet("report", conn_ok /\ send_ok, << >>,
                        IF conn_ok THEN 1 ELSE 0, 0)
    /\ retry' = 0
    /\ UNCHANGED <<round, iter, expect, notified>>
    /\ UNCHANGED <<qvars, rvars, mvars, cvars>>

\* one round of critical_section's loop: relay_service again, return if it
\* is Ok, else delay_ms(300_000); panic!() after the last round
CriticalRetry ==
    /\ lpc = "critical"
    /\ retry < critical_retry
    /\ \E ok1 \in BOOLEAN, ok2 \in BOOLEAN :
        \E r \in {relay_service(relays, Q, nextMsg, now, ok1, ok2)} :
            /\ relays' = r.relays
            /\ Queued(r.q, r.accepted, r.tag)
            /\ lpc' = IF r.err = "none" THEN "drain"
                      ELSE IF retry + 1 < critical_retry THEN "critical"
                      ELSE "panicked"
            /\ lret' = LRet("critical_retry", r.err = "none", << >>, 0, r.offered)
            /\ notified' = Notify(notified, r.stopped)
    /\ retry' = retry + 1
    /\ UNCHANGED <<round, iter, expect>>
    /\ UNCHANGED <<now, rret, events, status>>
    /\ UNCHANGED <<mvars, cvars>>

\* the tag k places after tag m
TagAfter(m, k) == ((m - 1 + k) % MsgMod) + 1

\* send_message_queue(&mut tele_api, &mut message_queue, MAX_SEND_EFFORT),
\* its error only logged; conns and goods are what the network may do
DrainWith(conns, goods) ==
    /\ lpc = "drain"
    /\ \E conn_ok \in conns, good \in goods :
        \E r \in {send_message_queue(Q, MAX_SEND_EFFORT, conn_ok, good)} :
            /\ addr' = r.q.addr
            /\ storage' = r.q.storage
            /\ fifo' = SubSeq(fifo, Len(r.sent) + 1, Len(fifo))
            /\ expect' = TagAfter(expect, Len(r.sent))
            /\ lpc' = IF r.panic THEN "panicked" ELSE after_drain(round)
            /\ lret' = LRet("drain", r.ok, r.sent, r.attempts, 0)
    /\ round' = round + 1
    /\ iter' = Append(iter, "drain")
    /\ UNCHANGED <<pc, ret, nextMsg, streak, snap, retry, notified>>
    /\ UNCHANGED <<rvars, mvars, cvars>>

\* a drain with the connection and any of the sends failing or not
Drain == DrainWith(BOOLEAN, 0..MAX_SEND_EFFORT)

\* a drain with the Notifier reachable throughout
DrainReachable == DrainWith({TRUE}, {MAX_SEND_EFFORT})

\* ensure_wifi_connected; on an error `continue 'm`
EnsureWifi ==
    /\ lpc = "wifi"
    /\ \E ok \in BOOLEAN :
        /\ lpc' = IF ok THEN "fetch" ELSE "service"
        /\ lret' = LRet("wifi", ok, << >>, 0, 0)
    /\ round' = 0
    /\ UNCHANGED <<retry, iter, expect, notified>>
    /\ UNCHANGED <<qvars, rvars, mvars, cvars>>

\* the command texts that arrive from the chat
LoopCommands ==
    { join(<< Word("relay"), Word("pompa_air"), Word("on"), Word("for"), <<"0", "m">> >>),
      join(<< Word("relay"), Word("both"), Word("on"), Word("for"), <<"0", "m">> >>),
      join(<< Word("relay"), Word("lain_lain"), Word("on") >>),
      join(<< Word("relay"), Word("both"), Word("off") >>),
      Word("foo") }

\* get_tele_notif failed, or returned no notification, or one that is not
\* a command, or one that is one of the given command texts
Notifications(commands) ==
    {[kind |-> k, q |-> << >>] : k \in {"error", "none", "text"}}
        \cup {[kind |-> "command", q |-> q] : q \in commands}

\* whether the pin writes of a command succeed (read only by a command
\* that gets to the relay bank)
PinOutcomes(n) ==
    IF n.kind = "command" /\ n.q # Word("foo") THEN BOOLEAN \X BOOLEAN
                                                 ELSE {<<TRUE, TRUE>>}

\* get_tele_notif, then for each notification run_command (if it is a
\* command) and message_queue.enqueue(reply); commands are the command
\* texts the chat may hold
FetchWith(commands) ==
    /\ lpc = "fetch"
    /\ \E n \in Notifications(commands) : \E ok \in PinOutcomes(n) :
        LET c == IF n.kind = "command"
                 THEN run_command(relays, n.q, now, ok[1], ok[2], FALSE)
                 ELSE [relays |-> relays]
            st == [q |-> Q, tag |-> nextMsg, accepted |-> << >>, offered |-> 0]
            o == IF n.kind \in {"text", "command"} THEN offer(st) ELSE st
        IN  /\ relays' = c.relays
            /\ Queued(o.q, o.accepted, o.tag)
            /\ lret' = LRet("commands", n.kind # "error", << >>, 0, o.offered)
            /\ notified' = [i \in 1..2 |->
                               IF c.relays[i].running # relays[i].running THEN 0
                                                                          ELSE notified[i]]
    /\ lpc' = "service"
    /\ iter' = Append(iter, "command")
    /\ UNCHANGED <<round, retry, expect>>
    /\ UNCHANGED <<now, rret, events, status>>
    /\ UNCHANGED <<mvars, cvars>>

\* the chat holds relay commands
FetchCommands == FetchWith(LoopCommands)

\* the chat holds no relay command
FetchReplies == FetchWith({Word("foo")})

\* the device starts again: the relay bank and the loop start afresh, the
\* queue is read from flash
Restart ==
    /\ relays' = [i \in 1..2 |-> Relay_new]
    /\ addr' = new(storage).addr
    /\ lpc' = "service"
    /\ round' = 0
    /\ retry' = 0
    /\ iter' = << >>
    /\ lret' = LRet("boot", TRUE, << >>, 0, 0)
    /\ notified' = <<0, 0>>
    /\ UNCHANGED <<storage, pc, ret, fifo, nextMsg, streak, snap, expect>>
    /\ UNCHANGED <<now, rret, events, status>>
    /\ UNCHANGED <<mvars, cvars>>

\* a restart after main() returned an error or panicked
Reboot == lpc \in {"exited", "panicked"} /\ Restart

\* a restart after a power cycle between two steps of the loop
PowerCycle == lpc \notin {"exited", "panicked"} /\ Restart

\* the loop with relay commands arriving, relay outputs failing or not
\* and the Notifier reachable whenever the queue is drained; the clock
\* stands still, so that an order `for 0m` is due at once and an order
\* without `for` never is
NextLoop ==
    \/ RelayService
    \/ Report
    \/ CriticalRetry
    \/ DrainReachable
    \/ EnsureWifi
    \/ FetchCommands
    \/ Reboot

SpecLoop == Init /\ [][NextLoop]_vars

\* the loop with the relays left idle and the Notifier failing or not
NextOutage ==
    \/ RelayService
    \/ Drain
    \/ EnsureWifi
    \/ FetchReplies
    \/ PowerCycle

SpecOutage == Init /\ [][NextOutage]_vars

\* the chat holds orders that are due as soon as they are given
FetchOverdue ==
    FetchWith({ join(<< Word("relay"), Word("both"), Word("on"), Word("for"), <<"0", "m">> >>),
                join(<< Word("relay"), Word("lain_lain"), Word("on"), Word("for"), <<"0", "m">> >>) })

\* the loop with overdue orders, relay outputs failing or not
NextOverdue ==
    \/ RelayService
    \/ Report
    \/ CriticalRetry
    \/ DrainReachable
    \/ EnsureWifi
    \/ FetchOverdue
    \/ Reboot

\* main() is one sequential task: as long as it has not ended it takes its
\* next step (every delay_ms returns); a restart after it ended is not
\* promised
FairLoop ==
    /\ WF_vars(RelayService)
    /\ WF_vars(Report)
    /\ WF_vars(CriticalRetry)
    /\ WF_vars(DrainReachable)
    /\ WF_vars(EnsureWifi)
    /\ WF_vars(FetchOverdue)

SpecOverdue == Init /\ [][NextOverdue]_vars /\ FairLoop

---------------------------------------------------------------------------
(* Properties of the queue, calls running to completion (Spec) *)

\* C1: the queue reports full only while it holds exactly QUEUE_LIMIT - 1
\* entries and reports empty only while it holds none.
C1_FullEmptyReports ==
    /\ is_full(addr) => (Count = QUEUE_LIMIT - 1 /\ Len(fifo) = QUEUE_LIMIT - 1)
    /\ is_empty(addr) => (Count = 0 /\ Len(fifo) = 0)

\* reported full after the cursors wrapped past the top address
C1_Witness == is_full(addr) /\ addr[QTail] < addr[QHead] /\ ret.op = "enqueue"

\* C2: enqueue on a full queue reports not-accepted and changes neither the
\* cursors, nor the persisted cursors, nor any stored slot.
C2_FullEnqueueNoChange ==
    [][(ret'.op = "enqueue" /\ is_full(addr))
          => (ret'.ok = FALSE /\ addr' = addr /\ storage' = storage)]_vars

\* the 20th enqueue in a row was made on a full queue
C2_Witness ==
    ret.op = "enqueue" /\ ~ret.ok /\ streak = QUEUE_LIMIT /\ Count = QUEUE_LIMIT - 1

\* C3: enqueue returns true exactly when the queue was not full at the call.
C3_AcceptedIffNotFull ==
    [][ret'.op = "enqueue" => (ret'.ok <=> ~is_full(addr))]_vars

\* C4: k enqueues in a row from an empty queue store k entries for
\* k < QUEUE_LIMIT, the QUEUE_LIMIT-th stores nothing, and the queue never
\* holds more than QUEUE_LIMIT - 1 entries.
C4_Capacity ==
    /\ Count <= QUEUE_LIMIT - 1
    /\ Len(fifo) <= QUEUE_LIMIT - 1
    /\ (streak >= 0 /\ streak < QUEUE_LIMIT) => (Count = streak /\ Len(fifo) = streak)
    /\ streak = QUEUE_LIMIT => (Count = QUEUE_LIMIT - 1 /\ Len(fifo) = QUEUE_LIMIT - 1)

\* QUEUE_LIMIT enqueues in a row, begun where the tail had to wrap
C4_Witness == streak = QUEUE_LIMIT /\ addr[QTail] < addr[QHead]

\* C5: the slots from head to tail hold the stored payloads in the order
\* they were stored, and peek returns the oldest of them.
C5_Fifo ==
    /\ Held(Q) = AllSome(fifo)
    /\ ret.op = "peek" =>
          (/\ ~ret.panic
           /\ ret.val = IF fifo = << >> THEN None ELSE Some(Head(fifo)))

\* peek answered on a queue of three or more entries that wraps
C5_Witness ==
    ret.op = "peek" /\ ret.val # None /\ Len(fifo) >= 3 /\ addr[QTail] < addr[QHead]

\* C6: dequeue never aborts; on a non-empty queue it returns the payload at
\* head with the entry removed and head advanced, on an empty queue it
\* returns None and changes nothing.
C6_DequeueReturnsHead ==
    [][ret'.op = "dequeue" =>
          /\ ~ret'.panic
          /\ IF is_empty(addr)
             THEN ret'.val = None /\ addr' = addr /\ storage' = storage
             ELSE /\ ret'.val = Some(Head(fifo))
                  /\ addr'[QHead] = increment(addr[QHead])
                  /\ addr[QHead] \notin DOMAIN storage'.blob]_vars

\* C7: the persisted cursors equal the in-memory cursors, and the queue
\* FMemQueue::new rebuilds from the store holds the same payloads in the
\* same order.
C7_Durable ==
    /\ new(storage).addr = addr
    /\ Held(new(storage)) = AllSome(fifo)

\* a restart found a wrapped, non-empty queue in the store
C7_Witness ==
    ret.op = "new" /\ Len(fifo) >= 2 /\ addr[QTail] < addr[QHead] /\ storage.head # None

---------------------------------------------------------------------------
(* Properties of the queue under power loss (SpecCrash) *)

\* C8: while the blob of an enqueue is written but the tail cursor is not
\* yet persisted, the queue a restart would rebuild holds exactly what it
\* held when the enqueue began and peek on it answers as before; a power
\* loss at that point restarts into that queue, and only the persisted
\* tail update adds the new entry, whole.
C8_CommitPoint ==
    [][/\ pc' = "enq_tail" =>
            (/\ Held(new(storage'))= snap'
             /\ peek(new(storage')) = peek(Q))
       /\ (pc = "enq_tail" /\ ret'.op = "new") => Held(Q)' = snap
       /\ (pc = "enq_tail" /\ ret'.op = "enqueue") =>
            (/\ Held(Q)' = Append(snap, Some(nextMsg))
             /\ Held(new(storage')) = Held(Q)')]_vars

\* a restart after power was lost between the blob write and the tail
\* update: the written blob lies in the slot at tail, outside the queue
C8_Witness ==
    /\ ret.op = "new"
    /\ pc = "idle"
    /\ addr[QTail] \in DOMAIN storage.blob
    /\ ~is_empty(addr)

---------------------------------------------------------------------------
(* Properties of the relay bank (SpecRelay) *)

\* C9: set(address, Run(order)) on an addressed relay that holds a running
\* order returns an error and leaves that relay's order as it was.
C9_NoRerun ==
    [][\A i \in 1..2 :
          (/\ rret'.op = "set"
           /\ rret'.state.kind = "Run"
           /\ Addressed(rret'.target, i)
           /\ relays[i].running # None)
          => (rret'.err # "none" /\ relays'[i].running = relays[i].running)]_vars

\* both relays run under different orders and a Run addressed to both was refused
C9_Witness ==
    /\ rret.op = "set"
    /\ rret.state.kind = "Run"
    /\ rret.target = Both
    /\ rret.err = "already_on"
    /\ relays[1].running # None
    /\ relays[2].running # None
    /\ relays[1].running # relays[2].running
    /\ rret.state.ord # relays[1].running
    /\ rret.state.ord # relays[2].running

\* C10: after set(address, Stop) returns without error every addressed
\* relay has its output low and no running order.
C10_StopClears ==
    [][(rret'.op = "set" /\ rret'.state.kind = "Stop" /\ rret'.err = "none")
          => \A i \in 1..2 :
                 Addressed(rret'.target, i)
                     => (relays'[i].pin = "low" /\ relays'[i].running = None)]_vars

\* ---------------------------------------------------------------------
\* Relay bank: polling, end-to-end deadline, Both

\* the running order of relay i is due at time t
Due(rs, i, t) == rs[i].running # None /\ rs[i].running[1].end_at <= t

\* C11: pool_event yields a deadline event for a relay if and only if the
\* relay has a running order with end_at <= now; an idle relay and a relay
\* whose end_at is in the future get no event.
C11_PoolEventIffDue ==
    rret.op = "pool_event" =>
        \A i \in 1..2 :
            /\ (events[i] # None) <=> Due(relays, i, now)
            /\ events[i] # None => events[i] = Some(Event(RelayName(i), TRUE))

\* a poll with one relay due exactly now and the other running into the future
C11_Witness ==
    /\ rret.op = "pool_event"
    /\ events[1] # None
    /\ relays[1].running[1].end_at = now
    /\ events[2] = None
    /\ relays[2].running # None

\* the entries of a DoubleRelayStatus that report relay i
StatusOf(st, i) == {k \in 1..Len(st) : st[k].name = RelayName(i)}

\* C12: a relay started by an on command at t0 with duration d gets no event
\* from a poll before t0+d and one deadline event from a poll at t0+d; after
\* the stop that follows, its status reports off (no run info) and polls
\* yield no event for it.
C12_EndToEnd ==
    [][ /\ (rret'.op = "interprete" /\ rret'.state.kind = "Run" /\ rret'.err = "none") =>
              \A i \in 1..2 : Addressed(rret'.target, i) =>
                  /\ relays'[i].running = rret'.state.ord
                  /\ rret'.state.ord[1].start_at = now
        /\ rret'.op = "pool_event" =>
              \A i \in 1..2 : relays[i].running # None =>
                  IF now < relays[i].running[1].end_at
                  THEN events'[i] = None
                  ELSE events'[i] = Some(Event(RelayName(i), TRUE))
        /\ (rret'.op = "interprete" /\ rret'.state.kind = "Stop" /\ rret'.err = "none") =>
              \A i \in 1..2 : Addressed(rret'.target, i) =>
                  /\ \A k \in StatusOf(status', i) : status'[k].run_info = None
                  /\ pool_event(relays', now')[i] = None
      ]_vars

\* C13: set(Both, Run(order)) either leaves both relays holding the new order
\* (success) or leaves the running order and the output of both relays as
\* they were (failure).
C13_BothAtomic ==
    [][ (rret'.op = "set" /\ rret'.target = Both /\ rret'.state.kind = "Run") =>
            IF rret'.err = "none"
            THEN \A i \in 1..2 : relays'[i].running = rret'.state.ord
            ELSE \A i \in 1..2 : /\ relays'[i].running = relays[i].running
                                 /\ relays'[i].pin = relays[i].pin
      ]_vars

\* ---------------------------------------------------------------------
\* Message codec

\* C14: from_bytes(into_bytes(m)) is m for every chat id and every text, the
\* empty text and one-byte texts included, and a message the message queue
\* accepted is what peek returns.
C14_RoundTrip ==
    /\ mret.op = "round_trip" => (~mret.panic /\ mret.msg = Some(msg))
    /\ (mret.op = "peek" /\ fifo # << >>) => (~mret.panic /\ mret.msg = Some(Head(fifo)))

\* ---------------------------------------------------------------------
\* Command grammar

\* the errors run_command raises before it reaches the relay bank
ParseErrors ==
    {"invalid_cmd", "invalid_unit", "unregister_command",
     "no_matching_pattern", "expected_duration"}

\* C15: run_command follows `relay <name> <on|off> [for <integer><m|h>]`: a
\* valid command yields {name, instruction, duration}, the duration absent
\* without a `for` clause and otherwise exactly integer*60 (m) or
\* integer*3600 (h) for every integer that parses; another top-level keyword
\* fails as unregistered command, a missing name or on/off token as invalid
\* command, a duration token shorter than 2 characters, with another unit
\* or with an unparsable integer as invalid unit; a parse failure changes
\* no relay state.
C15_Grammar ==
    [][ cret'.op = "run_command" =>
          LET ts == split(cmd)
              head3 == /\ ts[1] = Word("relay")
                       /\ Len(ts) >= 3
                       /\ ts[3] \in {Word("on"), Word("off")}
              clause == head3 /\ Len(ts) >= 5 /\ ts[4] = Word("for")
              d == ts[5]
              n == parse_u32(SubSeq(d, 1, Len(d) - 1))
              dur_ok == /\ Len(d) >= 2
                        /\ d[Len(d)] \in {"m", "h"}
                        /\ n # None
          IN  /\ ts[1] # Word("relay") => cret'.err = "unregister_command"
              /\ (ts[1] = Word("relay") /\ ~head3) => cret'.err = "invalid_cmd"
              /\ (clause /\ ~dur_ok) => cret'.err = "invalid_unit"
              /\ (head3 /\ Len(ts) = 3) =>
                    /\ ~cret'.panic
                    /\ cret'.query =
                         Some(RelayQuery(Some(ts[2]), Some(ts[3] = Word("on")), None))
              /\ (clause /\ dur_ok) =>
                    /\ ~cret'.panic
                    /\ cret'.query =
                         Some(RelayQuery(Some(ts[2]), Some(ts[3] = Word("on")),
                              Some(u32_mul_add(n[1],
                                               IF d[Len(d)] = "m" THEN 60 ELSE 3600, 0))))
              /\ cret'.err \in ParseErrors => relays' = relays
      ]_vars

\* ---------------------------------------------------------------------
\* Control loop

\* in this iteration every phase x came before every phase y
Before(x, y) ==
    \A i \in 1..Len(iter), j \in 1..Len(iter) :
        (iter[i] = x /\ iter[j] = y) => i < j

FullIteration ==
    [i \in 1..(2 * ROUNDS + 1) |->
        IF i = 2 * ROUNDS + 1 THEN "command"
        ELSE IF i % 2 = 1 THEN "deadline" ELSE "drain"]

Aborted(at) == at \in {"exited", "panicked"}

\* C17: a failed deadline stop takes the loop into the critical section,
\* which retries the stop at most 12 times, goes back to the normal loop as
\* soon as a retry succeeds, and aborts the process if and only if all 12
\* retries fail.
C17_CriticalSection ==
    [][ /\ lret'.op = "report" => lpc' = "critical"
        /\ lret'.op = "critical_retry" =>
              /\ retry' <= critical_retry
              /\ lret'.ok => lpc' = "drain"
              /\ (~lret'.ok /\ retry' < critical_retry) => lpc' = "critical"
              /\ (~lret'.ok /\ retry' = critical_retry) => Aborted(lpc')
        /\ (Aborted(lpc') /\ ~Aborted(lpc)) =>
              /\ lret'.op = "critical_retry"
              /\ ~lret'.ok
              /\ retry' = critical_retry
      ]_vars

\* C18: a drain removes an entry only after the Notifier confirmed its
\* send: the entries removed are the confirmed ones, every other entry is
\* still in the queue at its place when the drain returns, and a drain
\* attempts at most MAX_SEND_EFFORT (8) sends.
C18_RemoveAfterConfirm ==
    [][ lret'.op = "drain" =>
          LET k == Len(lret'.sent)
              held == Held(Q)
          IN  /\ k <= Len(held)
              /\ AllSome(lret'.sent) = SubSeq(held, 1, k)
              /\ Held(Q)' = SubSeq(held, k + 1, Len(held))
              /\ \A key \in DOMAIN storage'.blob :
                    /\ key \in DOMAIN storage.blob
                    /\ storage'.blob[key] = storage.blob[key]
              /\ lret'.attempts <= MAX_SEND_EFFORT
              /\ lret'.attempts \in {k, k + 1}
              /\ lret'.attempts = k + 1 => ~lret'.ok
      ]_vars

\* a drain whose eighth send failed, with more waiting behind it
C18_Witness ==
    /\ lret.op = "drain"
    /\ ~lret.ok
    /\ lret.attempts = MAX_SEND_EFFORT
    /\ RingLen(addr) >= 2

\* C19: across the iterations the messages are delivered in the order in
\* which the queue accepted them: head only advances, by one per delivered
\* message, the delivered messages are the oldest undelivered ones in
\* order, and no send follows a failed one in the same drain.
C19_FifoDelivery ==
    [][ /\ lret'.op = "drain" =>
              /\ lret'.sent = [i \in 1..Len(lret'.sent) |-> TagAfter(expect, i - 1)]
              /\ addr'[QHead] = RingAt(addr[QHead], Len(lret'.sent))
              /\ ~lret'.ok => lret'.attempts \in {0, Len(lret'.sent) + 1}
        /\ lret'.op # "drain" => addr'[QHead] = addr[QHead]
        /\ fifo' # << >> => Head(fifo') = expect'
        /\ fifo' = << >> => expect' = nextMsg'
      ]_vars

\* a drain that delivered some messages and then halted on a failed send,
\* in an iteration after the first
C19_Witness ==
    /\ lret.op = "drain"
    /\ ~lret.ok
    /\ Len(lret.sent) >= 2
    /\ fifo # << >>
    /\ addr[QHead] < addr[QTail]
    /\ expect # 1

\* C20: no message the loop produces is lost: every notification or reply
\* handed to the queue is in the queue afterwards, also when the queue was
\* full at that moment (and so is delivered once sends succeed).
C20_NoMessageLost ==
    [][ lret'.op \in {"relay_service", "critical_retry", "commands"} =>
            RingLen(addr') = RingLen(addr) + lret'.offered
      ]_vars

\* C21: a Notifier transport failure (connection set-up or send) is never
\* fatal: the step that meets it reports it and the loop goes on, and
\* main() ends only when the critical section has used up its retries.
C21_TransportNeverFatal ==
    [][ /\ (lret'.op \in {"report", "drain", "commands"} /\ ~lret'.ok) => ~Aborted(lpc')
        /\ (Aborted(lpc') /\ ~Aborted(lpc)) =>
              (lret'.op = "critical_retry" /\ retry' = critical_retry)
      ]_vars

\* ---------------------------------------------------------------------
\* Relay bank: data-model invariant

\* C22: for each relay the running order is absent if and only if its
\* output is off, after any sequence of set(Run) / set(Stop) calls, those
\* that fail included.
C22_RunningIffOn ==
    \A i \in 1..2 : (relays[i].running = None) <=> (relays[i].pin = "low")

\* ---------------------------------------------------------------------
\* Queue: cursor arithmetic

\* the addresses of the ring: [START_INDEX, START_INDEX + QUEUE_LIMIT - 1]
Addresses == START_INDEX..(START_INDEX + QUEUE_LIMIT - 1)

\* the cursor increment as the modular formula
ModInc(a) == ((a + 1 - START_INDEX) % QUEUE_LIMIT) + START_INDEX

\* C23: on every address of the ring the cursor increment equals
\* (addr + 1 - base) mod LIMIT + base, the top address base+LIMIT-1
\* increments to base, the result stays inside the ring, and every move of
\* a cursor of the queue is that increment.
C23_IncrementFormula ==
    [][ /\ \A a \in Addresses : increment(a) = ModInc(a) /\ increment(a) \in Addresses
        /\ increment(START_INDEX + QUEUE_LIMIT - 1) = START_INDEX
        /\ \A t \in {QHead, QTail} :
              /\ addr[t] \in Addresses
              /\ addr'[t] \in Addresses
              /\ addr'[t] # addr[t] => addr'[t] = ModInc(addr[t])
      ]_vars

\* the tail, and later the head, went from the top address back to base
C23_Witness ==
    /\ ret.op = "remove_first"
    /\ ret.ok
    /\ addr[QHead] = START_INDEX
    /\ storage.head = Some(START_INDEX)
    /\ addr[QTail] < START_INDEX + QUEUE_LIMIT - 1
    /\ storage.tail = Some(addr[QTail])
    /\ fifo # << >>

\* ---------------------------------------------------------------------
\* Control loop: deadline notifications

\* C24: each run order that reaches its deadline and is stopped gets
\* exactly one deadline notification over all iterations and critical
\* retries: a deadline enforcement that succeeds has produced it, and no
\* later one produces another for the same order.
C24_OneNotification ==
    [][ \A i \in 1..2 :
          /\ notified'[i] <= 1
          /\ (/\ lret'.op \in {"relay_service", "critical_retry"}
              /\ lret'.ok
              /\ Due(relays, i, now)) => notified'[i] = 1
      ]_vars

\* ---------------------------------------------------------------------
\* Queue under power loss: remove_first

\* C25: after a power loss at any point inside remove_first and the
\* restart that follows, every slot from head up to (not including) tail
\* holds a stored message, and peek never aborts on a missing slot.
C25_RemoveCrashConsistent ==
    /\ pc = "idle" => \A i \in 1..RingLen(addr) : Held(Q)[i] # None
    /\ ret.op = "peek" => ~ret.panic

\* ---------------------------------------------------------------------
\* Control loop: liveness of deadline enforcement (SpecOverdue)

\* relay i holds an order whose deadline has passed and no deadline stop
\* of it has succeeded yet
Overdue(i) == Due(relays, i, now) /\ notified[i] = 0

\* a deadline stop of relay i has succeeded
StoppedAtDeadline(i) == notified[i] >= 1

\* main() panicked at the end of critical_section, its retries used up
ExhaustedAbort ==
    lpc = "panicked" /\ lret.op = "critical_retry" /\ retry = critical_retry

\* C26: once a running relay is overdue, the loop eventually performs a
\* successful set(Stop) on it or reaches the abort after the exhausted
\* critical-section retries, also when both relays are overdue and the
\* stop of the first one fails.
C26_OverdueStoppedOrAbort ==
    \A i \in 1..2 : Overdue(i) ~> (StoppedAtDeadline(i) \/ ExhaustedAbort)

=============================================================================
